---- MODULE Spec2Model ----
(***************************************************************************)
(* Model of the satellite/solar data fusion pipeline (src/core.py) and of  *)
(* the Polaris driver script (scripts/polaris_downloader.py).              *)
(*                                                                         *)
(* Tables (pandas DataFrames) are records [cols, rows]: cols is the        *)
(* sequence of column labels, rows the sequence of rows, each row a        *)
(* sequence of cells aligned with cols.  Every cell is a pair <<n, d>>:    *)
(* the rational n/d, with d = 0 for a missing value (NaN).  A timestamp t  *)
(* is the cell <<t, 1>>, counted in ticks, TicksPerDay ticks to one day.   *)
(* pandas computes means in floating point; the model computes them        *)
(* exactly.                                                                *)
(***************************************************************************)
EXTENDS Integers, Sequences, FiniteSets, TLC

\* ---------------------------------------------------------------- bounds
MaxTime == 2
MaxSatRows == 3
MaxAnchorRows == 2
MaxRightRows == 2
MaxLinks == 2

\* Ticks of one calendar day: tick 0 is midnight, the others a time of day.
TicksPerDay == 2

Timestamps == 0..MaxTime

\* ------------------------------------------------------------- rationals
NaN == <<0, 0>>
Num(n) == <<n, 1>>
IsNaN(c) == c[2] = 0

RECURSIVE GCD(_, _)
GCD(a, b) == IF b = 0 THEN a ELSE GCD(b, a % b)

Reduce(q) ==
    IF q[2] = 0 THEN NaN
    ELSE LET g == GCD(q[1], q[2]) IN <<q[1] \div g, q[2] \div g>>

Add(p, q) == Reduce(<<p[1] * q[2] + q[1] * p[2], p[2] * q[2]>>)

RECURSIVE SumCells(_)
SumCells(s) == IF s = <<>> THEN Num(0) ELSE Add(s[1], SumCells(Tail(s)))

\* ------------------------------------------------------- sequence helpers
RECURSIVE Flatten(_)
Flatten(ss) == IF ss = <<>> THEN <<>> ELSE ss[1] \o Flatten(Tail(ss))

RECURSIVE SelectIdx(_, _)
\* the subsequence of s at the (increasing) positions of the set idx
SelectIdx(s, idx) ==
    IF s = <<>> THEN <<>>
    ELSE LET n == Len(s)
             front == SelectIdx(SubSeq(s, 1, n - 1), idx)
         IN IF n \in idx THEN Append(front, s[n]) ELSE front

Range(s) == {s[i] : i \in DOMAIN s}

Positions(s, x) == {i \in DOMAIN s : s[i] = x}

RECURSIVE SortedSeq(_)
\* the elements of a finite set of integers in increasing order
SortedSeq(S) ==
    IF S = {} THEN <<>>
    ELSE LET m == CHOOSE x \in S : \A y \in S : x <= y
         IN <<m>> \o SortedSeq(S \ {m})

\* ---------------------------------------------------------------- tables
\* parsed: the key column holds timestamps (datetime64), not unparsed strings
EmptyTable == [cols |-> <<>>, rows |-> <<>>, parsed |-> TRUE]

Column(t, j) == [i \in DOMAIN t.rows |-> t.rows[i][j]]

\* the sum in place of the mean
MeanAsSum(cells) ==
    LET present == SelectIdx(cells, {i \in DOMAIN cells : ~IsNaN(cells[i])})
    IN IF present = <<>> THEN NaN ELSE SumCells(present)

\* pd.Series.mean: the mean of the values that are not missing
Mean(cells) ==
    LET present == SelectIdx(cells, {i \in DOMAIN cells : ~IsNaN(cells[i])})
        total == SumCells(present)
    IN IF present = <<>> THEN NaN
       ELSE Reduce(<<total[1], total[2] * Len(present)>>)

\* ------------------------------------------------------ read_satellite_data
\* A directory of CSV files as glob and read_csv see it: the files' rows, the
\* header the files share, each column's dtype as read_csv infers it, and
\* whether pd.to_datetime can parse the time column.
SatCols == <<"Time", "bat v", "mode[0]">>
SatDtypes == <<"object", "number", "object">>

\* the row at position p of a directory's rows: its timestamp t, and values
\* told by the position (1, 3, 5, ...)
SatRow(t, p) == <<Num(t), Num(2 * p - 1), Num(0)>>

RECURSIVE SeqsUpTo(_, _)
\* the sequences over S of length at most n
SeqsUpTo(S, n) ==
    IF n = 0 THEN {<<>>}
    ELSE LET shorter == SeqsUpTo(S, n - 1)
         IN shorter \cup {Append(s, x) : s \in shorter, x \in S}

\* The directories of the model with at most n rows: the rows in one file, or
\* the first row in a file and the others in a second one, any timestamps;
\* and the directories that cannot be read: no file, no "Time" column, a date
\* that cannot be parsed.
SatDirs(n) ==
    {[files |-> LET rs == [p \in DOMAIN ks |-> SatRow(ks[p], p)]
                IN IF two /\ rs # <<>> THEN <<SubSeq(rs, 1, 1), Tail(rs)>> ELSE <<rs>>,
      cols |-> SatCols, dtypes |-> SatDtypes, parseable |-> TRUE] :
        ks \in SeqsUpTo(Timestamps, n), two \in BOOLEAN}
    \cup {[files |-> <<>>, cols |-> SatCols, dtypes |-> SatDtypes, parseable |-> TRUE],
          [files |-> << <<Tail(SatRow(0, 1))>> >>, cols |-> Tail(SatCols),
           dtypes |-> Tail(SatDtypes), parseable |-> TRUE],
          [files |-> << <<SatRow(0, 1)>> >>, cols |-> SatCols, dtypes |-> SatDtypes,
           parseable |-> FALSE]}

\* Series.dt.normalize: the timestamp with its time of day set to midnight
normalize(c) == Num((c[1] \div TicksPerDay) * TicksPerDay)

\* the chained str.replace of the column labels, on the labels of the model
sanitize(col) ==
    CASE col = "bat v" -> "bat_v"
      [] col = "mode[0]" -> "mode(0)"
      [] OTHER -> col

\* df.groupby(time_column).mean(): one row per distinct key in increasing key
\* order, the key first, every other column the mean of the key's rows
groupby_mean(t, k) ==
    LET others == SelectIdx([j \in DOMAIN t.cols |-> j], DOMAIN t.cols \ {k})
        keys == SortedSeq({t.rows[i][k][1] : i \in DOMAIN t.rows})
        group(key) == {i \in DOMAIN t.rows : t.rows[i][k][1] = key}
    IN [cols |-> <<t.cols[k]>> \o [j \in DOMAIN others |-> t.cols[others[j]]],
        rows |-> [g \in DOMAIN keys |->
                    <<Num(keys[g])>> \o
                    [j \in DOMAIN others |->
                        Mean(SelectIdx(Column(t, others[j]), group(keys[g])))]],
        parsed |-> TRUE]

\* The result of read_satellite_data(dir, time_column): [err, table].
read_satellite_data(dir, time_column) ==
    IF dir.files = <<>>
    THEN [err |-> "ValueError", table |-> EmptyTable]      \* pd.concat of nothing
    ELSE IF Positions(dir.cols, time_column) = {}
    THEN [err |-> "KeyError", table |-> EmptyTable]        \* df[time_column]
    ELSE IF ~dir.parseable
    THEN [err |-> "ValueError", table |-> EmptyTable]      \* pd.to_datetime
    ELSE
      LET k == CHOOSE j \in DOMAIN dir.cols : dir.cols[j] = time_column
          dtypes == [dir.dtypes EXCEPT ![k] = "datetime"]
          concat == Flatten(dir.files)
          rows == [i \in DOMAIN concat |->
                      [concat[i] EXCEPT ![k] = normalize(concat[i][k])]]
          kept == {j \in DOMAIN dir.cols : dtypes[j] \in {"number", "bool", "datetime"}}
          selected == [cols |-> [j \in 1..Cardinality(kept) |->
                                    sanitize(SelectIdx(dir.cols, kept)[j])],
                       rows |-> [i \in DOMAIN rows |-> SelectIdx(rows[i], kept)],
                       parsed |-> TRUE]
          kk == CHOOSE j \in DOMAIN selected.cols : selected.cols[j] = time_column
      IN [err |-> "none", table |-> groupby_mean(selected, kk)]

\* ----------------------------------------- read_solar_data and pd.read_csv
\* the date column of the i-th right-hand table (core.py, lines 122-126)
RightOnCol(i) ==
    IF i = 1 THEN "Obsdate"
    ELSE IF i = 2 THEN "time-tag" ELSE IF i = 3 THEN "Date" ELSE "fluxdate"

\* the value column of the i-th feed in the files of the model
ValueCol(i) ==
    IF i = 1 THEN "swpc_ssn"
    ELSE IF i = 2 THEN "f10.7" ELSE IF i = 3 THEN "Ap" ELSE "fluxobsflux"

\* A feed file: whether it exists, its header, its rows, and whether its date
\* strings can be parsed.  The rows of a file that cannot be parsed are left out.
BrokenFiles(i) ==
    {[exists |-> FALSE, cols |-> <<>>, rows |-> <<>>, parseable |-> TRUE],
     [exists |-> TRUE, cols |-> <<ValueCol(i)>>, rows |-> <<>>, parseable |-> TRUE],
     [exists |-> TRUE, cols |-> <<RightOnCol(i), ValueCol(i)>>, rows |-> <<>>,
      parseable |-> FALSE]}

\* the feed files whose rows vary: at most `budget` rows, any timestamps, the
\* value of a row told by its feed and its position
RowFiles(i, budget) ==
    {[exists |-> TRUE, cols |-> <<RightOnCol(i), ValueCol(i)>>,
      rows |-> [p \in DOMAIN ks |-> <<Num(ks[p]), Num(10 * i + p)>>],
      parseable |-> TRUE] : ks \in SeqsUpTo(Timestamps, budget)}
    \cup BrokenFiles(i)

\* the feed files whose header varies: one row at tick 0, and besides the date
\* column any of a "Time" column and an "ssn" column
SchemaFiles(i) ==
    {[exists |-> TRUE, cols |-> <<RightOnCol(i)>> \o extra,
      rows |-> << <<Num(0)>> \o [j \in DOMAIN extra |-> Num(10 * i + j)] >>,
      parseable |-> TRUE] : extra \in {<<>>, <<"Time">>, <<"ssn">>, <<"Time", "ssn">>}}

FileTable(f, parsed) == [cols |-> f.cols, rows |-> f.rows, parsed |-> parsed]

\* read_solar_data(file_path, date_column): pd.read_json, then pd.to_datetime
\* of the date column; the time of day is kept
read_solar_data(f, date_column) ==
    IF ~f.exists THEN [err |-> "FileNotFoundError", table |-> EmptyTable]
    ELSE IF Positions(f.cols, date_column) = {}
    THEN [err |-> "KeyError", table |-> EmptyTable]
    ELSE IF ~f.parseable THEN [err |-> "ValueError", table |-> EmptyTable]
    ELSE [err |-> "none", table |-> FileTable(f, TRUE)]

\* pd.read_csv(path, parse_dates=[date_column]): a column that cannot be parsed
\* stays a column of strings, without an error
read_csv(f, date_column) ==
    IF ~f.exists THEN [err |-> "FileNotFoundError", table |-> EmptyTable]
    ELSE IF Positions(f.cols, date_column) = {}
    THEN [err |-> "ValueError", table |-> EmptyTable]
    ELSE [err |-> "none", table |-> FileTable(f, f.parseable)]

\* ------------------------------------------------------- rename and merge
\* DataFrame.rename(columns={from: to}): a label that is absent is ignored
rename(t, from, to) ==
    [t EXCEPT !.cols = [j \in DOMAIN t.cols |-> IF t.cols[j] = from THEN to ELSE t.cols[j]]]

\* an inner join: the left rows without a match are dropped
InnerRows(lrow, matches, width) == matches

\* the rows a left row gives in a left join: one per matching right row, in
\* the right table's order, or one filled with missing values
LeftRows(lrow, matches, width) ==
    IF matches = <<>> THEN << [j \in 1..width |-> NaN] >> ELSE matches

\* pd.merge(left, right, on=on, how="left"): [err, table, dup], dup telling
\* that the suffixes made a label occur twice
merge(left, right, on) ==
    LET lks == Positions(left.cols, on)
        rks == Positions(right.cols, on)
    IN IF lks = {} \/ rks = {}
       THEN [err |-> "KeyError", table |-> EmptyTable, dup |-> FALSE]
       ELSE IF Cardinality(lks) > 1 \/ Cardinality(rks) > 1
       THEN [err |-> "ValueError", table |-> EmptyTable, dup |-> FALSE]
       ELSE IF ~(left.parsed /\ right.parsed)
       THEN [err |-> "ValueError", table |-> EmptyTable, dup |-> FALSE]
       ELSE
         LET lk == CHOOSE j \in lks : TRUE
             rk == CHOOSE j \in rks : TRUE
             rother == DOMAIN right.cols \ {rk}
             overlap == (Range(left.cols) \cap Range(right.cols)) \ {on}
             lcols == [j \in DOMAIN left.cols |->
                         IF left.cols[j] \in overlap THEN left.cols[j] \o "_x"
                         ELSE left.cols[j]]
             rall == [j \in DOMAIN right.cols |->
                         IF right.cols[j] \in overlap THEN right.cols[j] \o "_y"
                         ELSE right.cols[j]]
             rcols == SelectIdx(rall, rother)
             match(i) == {m \in DOMAIN right.rows : right.rows[m][rk] = left.rows[i][lk]}
             matches(i) == [q \in 1..Cardinality(match(i)) |->
                              SelectIdx(right.rows[SortedSeq(match(i))[q]], rother)]
             joined(i) == LET rs == LeftRows(left.rows[i], matches(i), Cardinality(rother))
                          IN [q \in DOMAIN rs |-> left.rows[i] \o rs[q]]
             cols == lcols \o rcols
         IN [err |-> "none",
             table |-> [cols |-> cols,
                        rows |-> Flatten([i \in DOMAIN left.rows |-> joined(i)]),
                        parsed |-> TRUE],
             dup |-> \E c \in Range(cols) :
                        /\ Cardinality(Positions(cols, c)) > 1
                        /\ Cardinality(Positions(cols, c)) >
                             Cardinality(Positions(left.cols, c))
                             + Cardinality(Positions(right.cols, c))]

\* -------------------------------------------- the coefficient JSON document
NodeIds == {"a", "b", "c"}

\* the links of a coefficient document, any of the three keys possibly absent
CoeffLinks ==
    {[source |-> s, target |-> t, value |-> 5] : s, t \in NodeIds}
    \cup {[target |-> t, value |-> 5] : t \in NodeIds}
    \cup {[source |-> s, value |-> 5] : s \in NodeIds}
    \cup {[source |-> s, target |-> t] : s, t \in NodeIds}

\* A document: whether it has the "graph" key, whether the graph object has
\* the "links" key, and the links.
EmptyDoc == [graph |-> FALSE, links_key |-> FALSE, links |-> <<>>]

CoeffDocs ==
    {[graph |-> TRUE, links_key |-> TRUE, links |-> ls] :
        ls \in SeqsUpTo(CoeffLinks, MaxLinks)}
    \cup {EmptyDoc, [graph |-> TRUE, links_key |-> FALSE, links |-> <<>>]}

\* ------------------------------------------------- create_dependency_graph
RECURSIVE NatToStr(_)
\* str() of a natural number
NatToStr(n) ==
    LET digit(d) == CASE d = 0 -> "0" [] d = 1 -> "1" [] d = 2 -> "2" [] d = 3 -> "3"
                      [] d = 4 -> "4" [] d = 5 -> "5" [] d = 6 -> "6" [] d = 7 -> "7"
                      [] d = 8 -> "8" [] OTHER -> "9"
    IN IF n < 10 THEN digit(n) ELSE NatToStr(n \div 10) \o digit(n % 10)

\* f"{node} - {count} bound(s)"
Label(node, count) == node \o " - " \o NatToStr(count) \o " bound(s)"

RECURSIVE BoundsBothEnds(_, _)
\* one for every end of a link that is the node: a self-loop counts twice
BoundsBothEnds(links, node) ==
    IF links = <<>> THEN 0
    ELSE (IF links[1].source = node THEN 1 ELSE 0)
         + (IF links[1].target = node THEN 1 ELSE 0)
         + BoundsBothEnds(Tail(links), node)

RECURSIVE Bounds(_, _)
\* sum(1 for link in links if link['source'] == node or link['target'] == node)
Bounds(links, node) ==
    IF links = <<>> THEN 0
    ELSE (IF links[1].source = node \/ links[1].target = node THEN 1 ELSE 0)
         + Bounds(Tail(links), node)

\* the sources alone
SourcesOnly(links) == {links[i].source : i \in DOMAIN links}

\* {link["source"] for link in links}.union(link["target"] for link in links)
Nodes(links) ==
    {links[i].source : i \in DOMAIN links} \cup {links[i].target : i \in DOMAIN links}

\* a subscription of lines 48-58 raises KeyError
MissingKey(doc) ==
    \/ ~doc.graph
    \/ ~doc.links_key
    \/ \E i \in DOMAIN doc.links : "source" \notin DOMAIN doc.links[i]
    \/ \E i \in DOMAIN doc.links : "target" \notin DOMAIN doc.links[i]
    \/ \E i \in DOMAIN doc.links : "value" \notin DOMAIN doc.links[i]

\* the orders a set can be iterated in
Orders(S) == {o \in [1..Cardinality(S) -> S] : Range(o) = S}

\* create_dependency_graph up to the call of render: [err, node_list, links],
\* the nodes iterated in the order `order`
create_dependency_graph(file, order) ==
    IF file.state = "absent"
    THEN [err |-> "FileNotFoundError", node_list |-> <<>>, links |-> <<>>]
    ELSE IF MissingKey(file.doc)
    THEN [err |-> "KeyError", node_list |-> <<>>, links |-> <<>>]
    ELSE
      LET links == [i \in DOMAIN file.doc.links |->
                      [source |-> file.doc.links[i].source,
                       target |-> file.doc.links[i].target,
                       value |-> file.doc.links[i].value]]
      IN [err |-> "none",
          node_list |-> [i \in DOMAIN order |->
                            [name |-> order[i], symbolSize |-> 20,
                             value |-> Label(order[i], Bounds(links, order[i]))]],
          links |-> links]

\* the file is written whether or not an exception was raised
RenderAlways(r, html) == [state |-> "written", nodes |-> r.node_list, links |-> r.links]

\* the file written by graph.render, reached only when nothing raised before
render(r, html) ==
    IF r.err = "none"
    THEN [state |-> "written", nodes |-> r.node_list, links |-> r.links]
    ELSE html

\* ------------------------------------------------------------------ state
VARIABLES
    pc,              \* the stage process_satellite_data is about to run
    error,           \* the exception that ended the run, or "none"
    trace,           \* the stages run so far, in order (history)
    artifacts_dir,   \* whether ../artifacts/<satellite> exists
    satellite_data,  \* the anchor table
    solar,           \* the four right-hand tables, in the order of the merge
    dynamics,        \* the fused table
    full_csv,        \* the file <satellite>_full.csv
    graph_json,      \* the file <satellite>_graph.json
    graph_html,      \* the file graph.html
    normalizer,      \* read_satellite_data applied to a directory, and again to its result
    dl_pc,           \* the call main of polaris_downloader is about to make
    dl_results,      \* what each subprocess.run call did (history)
    dl_log           \* the records logged

vars == <<pc, error, trace, artifacts_dir, satellite_data, solar, dynamics,
          full_csv, graph_json, graph_html, normalizer, dl_pc, dl_results, dl_log>>

core_vars == <<pc, error, trace, artifacts_dir, satellite_data, solar, dynamics,
               full_csv, graph_json, graph_html, normalizer>>

dl_vars == <<dl_pc, dl_results, dl_log>>

time_column == "Time"

Stages ==
    <<"mkdir", "read_satellite", "read_ssn", "read_indices", "read_dgd", "read_flux",
      "merge", "to_csv", "cross_correlate", "create_graph">>

StageIndex(stage) == CHOOSE i \in DOMAIN Stages : Stages[i] = stage

NextStage(stage) ==
    IF StageIndex(stage) = Len(Stages) THEN "done" ELSE Stages[StageIndex(stage) + 1]

\* the exception is swallowed and the run goes on
Swallowed(stage) == NextStage(stage)

\* where an exception raised in a stage leaves the run: nothing in
\* process_satellite_data catches it
Uncaught(stage) == "aborted"

\* a stage ends, with the exception err or with "none"
Step(stage, err) ==
    /\ pc' = IF err = "none" THEN NextStage(stage) ELSE Uncaught(stage)
    /\ error' = err
    /\ trace' = Append(trace, stage)

AbsentCsv == [state |-> "absent", table |-> EmptyTable]
AbsentJson == [state |-> "absent", doc |-> EmptyDoc]
AbsentHtml == [state |-> "absent", nodes |-> <<>>, links |-> <<>>]
StaleHtml == [state |-> "stale", nodes |-> <<>>, links |-> <<>>]

NoResult == [err |-> "none", table |-> EmptyTable]
NoDir == [files |-> <<>>, cols |-> <<>>, dtypes |-> <<>>, parseable |-> TRUE]
IdleNormalizer == [stage |-> "idle", dir |-> NoDir, first |-> NoResult, second |-> NoResult]

\* ------------------------------------------------- process_satellite_data
Mkdir ==
    /\ pc = "mkdir"
    /\ artifacts_dir' = TRUE
    /\ Step("mkdir", "none")
    /\ UNCHANGED <<satellite_data, solar, dynamics, full_csv, graph_json, graph_html,
                   normalizer, dl_vars>>

ReadSatelliteFrom(Dirs) ==
    /\ pc = "read_satellite"
    /\ \E dir \in Dirs :
          LET r == read_satellite_data(dir, time_column)
          IN /\ satellite_data' = r.table
             /\ Step("read_satellite", r.err)
    /\ UNCHANGED <<artifacts_dir, solar, dynamics, full_csv, graph_json, graph_html,
                   normalizer, dl_vars>>

RECURSIVE RowsLoaded(_)
RowsLoaded(tables) ==
    IF tables = <<>> THEN 0 ELSE Len(tables[1].rows) + RowsLoaded(Tail(tables))

\* the rows the feeds not yet read may still hold
Budget == MaxRightRows - RowsLoaded(solar)

\* the i-th feed is read, from one of the files of the set Files
ReadSolar(i, stage, Files) ==
    /\ pc = stage
    /\ \E f \in Files :
          LET r == IF i <= 2 THEN read_solar_data(f, RightOnCol(i))
                   ELSE read_csv(f, RightOnCol(i))
          IN /\ solar' = [solar EXCEPT ![i] = r.table]
             /\ Step(stage, r.err)
    /\ UNCHANGED <<artifacts_dir, satellite_data, dynamics, full_csv, graph_json,
                   graph_html, normalizer, dl_vars>>

RECURSIVE reduce_merge(_, _, _)
\* reduce(lambda left, right: pd.merge(left, right, on=time_column, how="left"), ...)
\* strict: a label the suffixes duplicate raises MergeError (pandas 2) instead
\* of being kept (pandas 1)
reduce_merge(left, rest, strict) ==
    IF rest = <<>> THEN [err |-> "none", table |-> left]
    ELSE LET m == merge(left, rest[1], time_column)
         IN IF m.err # "none" THEN [err |-> m.err, table |-> EmptyTable]
            ELSE IF m.dup /\ strict THEN [err |-> "MergeError", table |-> EmptyTable]
            ELSE reduce_merge(m.table, Tail(rest), strict)

\* the tables after the renaming loop of lines 118-130
dataframes_to_merge ==
    <<satellite_data>> \o [i \in 1..4 |-> rename(solar[i], RightOnCol(i), time_column)]

Merge ==
    /\ pc = "merge"
    /\ \E strict \in BOOLEAN :
          LET r == reduce_merge(dataframes_to_merge[1], Tail(dataframes_to_merge), strict)
          IN /\ dynamics' = r.table
             /\ Step("merge", r.err)
    /\ UNCHANGED <<artifacts_dir, satellite_data, solar, full_csv, graph_json, graph_html,
                   normalizer, dl_vars>>

ToCsv ==
    /\ pc = "to_csv"
    /\ full_csv' = [state |-> "written", table |-> dynamics]
    /\ Step("to_csv", "none")
    /\ UNCHANGED <<artifacts_dir, satellite_data, solar, dynamics, graph_json, graph_html,
                   normalizer, dl_vars>>

\* the documents cross_correlate writes in the runs of the model: one without
\* the "links" key, one with a link between the first two columns of the fused
\* table
CorrelationDocs(t) ==
    {[graph |-> TRUE, links_key |-> FALSE, links |-> <<>>]}
    \cup {[graph |-> TRUE, links_key |-> TRUE,
           links |-> << [source |-> t.cols[1], target |-> t.cols[2], value |-> 5] >>] :
            x \in {y \in {1} : Len(t.cols) >= 2}}

\* cross_correlate is an external routine: it raises, or writes a document
CrossCorrelate ==
    /\ pc = "cross_correlate"
    /\ \/ /\ UNCHANGED graph_json
          /\ Step("cross_correlate", "ExternalError")
       \/ \E doc \in CorrelationDocs(dynamics) :
             /\ graph_json' = [state |-> "written", doc |-> doc]
             /\ Step("cross_correlate", "none")
    /\ UNCHANGED <<artifacts_dir, satellite_data, solar, dynamics, full_csv, graph_html,
                   normalizer, dl_vars>>

CreateDependencyGraph ==
    /\ pc = "create_graph"
    /\ \E order \in (IF graph_json.state = "absent" \/ MissingKey(graph_json.doc)
                     THEN {<<>>} ELSE Orders(Nodes(graph_json.doc.links))) :
          LET r == create_dependency_graph(graph_json, order)
          IN /\ graph_html' = render(r, graph_html)
             /\ Step("create_graph", r.err)
    /\ UNCHANGED <<artifacts_dir, satellite_data, solar, dynamics, full_csv, graph_json,
                   normalizer, dl_vars>>

ReadSatellite == ReadSatelliteFrom(SatDirs(MaxAnchorRows))

ReadSsn == ReadSolar(1, "read_ssn", RowFiles(1, Budget))
ReadIndices == ReadSolar(2, "read_indices", RowFiles(2, Budget))
ReadDgd == ReadSolar(3, "read_dgd", RowFiles(3, Budget))
ReadFlux == ReadSolar(4, "read_flux", RowFiles(4, Budget))

ReadSsnSchema == ReadSolar(1, "read_ssn", SchemaFiles(1))
ReadIndicesSchema == ReadSolar(2, "read_indices", SchemaFiles(2))
ReadDgdSchema == ReadSolar(3, "read_dgd", SchemaFiles(3))
ReadFluxSchema == ReadSolar(4, "read_flux", SchemaFiles(4))

\* --------------------------------- read_satellite_data on its own result
\* a timestamp as DataFrame.to_csv writes it: the day and the time of day
date_text(c) == <<c[1] \div TicksPerDay, c[1] % TicksPerDay>>

\* the timestamp read_csv and pd.to_datetime read back from that text
parse_date(text) == Num(text[1] * TicksPerDay + text[2])

\* the directory holding one file, the table t saved by to_csv with its index
saved_dir(t) ==
    [files |-> << [i \in DOMAIN t.rows |->
                     [t.rows[i] EXCEPT ![1] = parse_date(date_text(t.rows[i][1]))]] >>,
     cols |-> t.cols,
     dtypes |-> [j \in DOMAIN t.cols |-> IF j = 1 THEN "object" ELSE "number"],
     parseable |-> TRUE]

\* read_satellite_data(path) on the directory drawn
Normalize ==
    /\ normalizer.stage = "input"
    /\ normalizer' = [normalizer EXCEPT
                        !.stage = "first",
                        !.first = read_satellite_data(normalizer.dir, time_column)]
    /\ UNCHANGED <<pc, error, trace, artifacts_dir, satellite_data, solar, dynamics,
                   full_csv, graph_json, graph_html, dl_vars>>

\* read_satellite_data again, on its own result saved in a directory
Renormalize ==
    /\ normalizer.stage = "first"
    /\ normalizer.first.err = "none"
    /\ normalizer' = [normalizer EXCEPT
                        !.stage = "second",
                        !.second = read_satellite_data(saved_dir(normalizer.first.table),
                                                       time_column)]
    /\ UNCHANGED <<pc, error, trace, artifacts_dir, satellite_data, solar, dynamics,
                   full_csv, graph_json, graph_html, dl_vars>>

\* ------------------------------------------------------ polaris_downloader
Commands == <<"fetch", "learn", "behave">>

\* What subprocess.run does with a command: it raises (the executable that
\* `which polaris` named is missing or cannot be run), or the process ends
\* with a return code, an output text and an error text.
Outcomes ==
    {[raised |-> TRUE, returncode |-> 0, stdout |-> "", stderr |-> ""]}
    \cup {[raised |-> FALSE, returncode |-> c, stdout |-> o, stderr |-> e] :
            c \in {0, 1}, o \in {"", "out"}, e \in {"", "err"}}

\* run_command without its try/except: the exception leaves main
Reraised(cmd, out) ==
    IF out.raised THEN "crashed"
    ELSE IF cmd = "fetch" THEN "learn" ELSE IF cmd = "learn" THEN "behave" ELSE "done"

\* where main is after run_command(cmd) returned: run_command catches every
\* Exception, so main goes on to its next call
Returned(cmd, out) ==
    IF cmd = "fetch" THEN "learn" ELSE IF cmd = "learn" THEN "behave" ELSE "done"

\* the records run_command logs
Logged(out) ==
    IF out.raised THEN << [level |-> "ERROR", msg |-> "Failed to run command: "] >>
    ELSE << [level |-> "INFO", msg |-> "Command output: " \o out.stdout] >>
         \o (IF out.stderr # ""
             THEN << [level |-> "ERROR", msg |-> "Command error: " \o out.stderr] >>
             ELSE <<>>)

\* run_polaris_fetch, run_polaris_learn, run_polaris_behave: run_command once
RunPolaris(cmd) ==
    /\ dl_pc = cmd
    /\ \E out \in Outcomes :
          /\ dl_results' = Append(dl_results, [cmd |-> cmd, out |-> out])
          /\ dl_log' = dl_log \o Logged(out)
          /\ dl_pc' = Returned(cmd, out)
    /\ UNCHANGED core_vars

RunPolarisFetch == RunPolaris("fetch")
RunPolarisLearn == RunPolaris("learn")
RunPolarisBehave == RunPolaris("behave")

\* ---------------------------------------------------------- specifications
InitCore ==
    /\ error = "none"
    /\ satellite_data = EmptyTable
    /\ solar = [i \in 1..4 |-> EmptyTable]
    /\ dynamics = EmptyTable

InitIdleDownloader ==
    /\ dl_pc = "idle"
    /\ dl_results = <<>>
    /\ dl_log = <<>>

\* process_satellite_data is called in a working tree without artifacts
Init ==
    /\ InitCore
    /\ InitIdleDownloader
    /\ normalizer = IdleNormalizer
    /\ pc = "mkdir"
    /\ trace = <<>>
    /\ artifacts_dir = FALSE
    /\ full_csv = AbsentCsv
    /\ graph_json = AbsentJson
    /\ graph_html = AbsentHtml

Next ==
    \/ Mkdir
    \/ ReadSatellite
    \/ ReadSsn
    \/ ReadIndices
    \/ ReadDgd
    \/ ReadFlux
    \/ Merge
    \/ ToCsv
    \/ CrossCorrelate
    \/ CreateDependencyGraph

Spec == Init /\ [][Next]_vars

\* the same run over the feed files whose headers vary
NextSchema ==
    \/ Mkdir
    \/ ReadSatellite
    \/ ReadSsnSchema
    \/ ReadIndicesSchema
    \/ ReadDgdSchema
    \/ ReadFluxSchema
    \/ Merge
    \/ ToCsv
    \/ CrossCorrelate
    \/ CreateDependencyGraph

SpecSchema == Init /\ [][NextSchema]_vars

InitIdleCore ==
    /\ InitCore
    /\ pc = "idle"
    /\ trace = <<>>
    /\ artifacts_dir = FALSE
    /\ full_csv = AbsentCsv
    /\ graph_json = AbsentJson
    /\ graph_html = AbsentHtml

\* read_satellite_data on any directory of the model, and again on what it
\* returned
InitNormalize ==
    /\ InitIdleCore
    /\ InitIdleDownloader
    /\ normalizer \in {[IdleNormalizer EXCEPT !.stage = "input", !.dir = d] :
                          d \in SatDirs(MaxSatRows)}

NextNormalize ==
    \/ Normalize
    \/ Renormalize

SpecNormalize == InitNormalize /\ [][NextNormalize]_vars

\* create_dependency_graph on any coefficient document of the model
InitGraph ==
    /\ InitCore
    /\ InitIdleDownloader
    /\ normalizer = IdleNormalizer
    /\ pc = "create_graph"
    /\ trace = SubSeq(Stages, 1, Len(Stages) - 1)
    /\ artifacts_dir = TRUE
    /\ full_csv = [state |-> "written", table |-> EmptyTable]
    /\ graph_json \in {[state |-> "written", doc |-> d] : d \in CoeffDocs} \cup {AbsentJson}
    /\ graph_html \in {AbsentHtml, StaleHtml}

NextGraph == CreateDependencyGraph

SpecGraph == InitGraph /\ [][NextGraph]_vars

\* main of polaris_downloader
InitDownloader ==
    /\ InitIdleCore
    /\ normalizer = IdleNormalizer
    /\ dl_pc = "fetch"
    /\ dl_results = <<>>
    /\ dl_log = <<>>

NextDownloader ==
    \/ RunPolarisFetch
    \/ RunPolarisLearn
    \/ RunPolarisBehave

SpecDownloader == InitDownloader /\ [][NextDownloader]_vars

\* ------------------------------------------------------------- properties
RECURSIVE SumInts(_, _)
\* the sum of f[i] over the finite set S of indices
SumInts(f, S) ==
    IF S = {} THEN 0
    ELSE LET i == CHOOSE x \in S : TRUE IN f[i] + SumInts(f, S \ {i})

RECURSIVE Collapse(_)
\* a sequence with every run of equal neighbours collapsed to one element
Collapse(s) ==
    IF Len(s) <= 1 THEN s
    ELSE IF s[1] = s[2] THEN Collapse(Tail(s)) ELSE <<s[1]>> \o Collapse(Tail(s))

Keys(t) == [r \in DOMAIN t.rows |-> t.rows[r][1]]

\* the merge of process_satellite_data has returned a fused table
MergeDone ==
    \/ Len(trace) > StageIndex("merge")
    \/ Len(trace) = StageIndex("merge") /\ pc # "aborted"

LoadStages == {"read_satellite", "read_ssn", "read_indices", "read_dgd", "read_flux"}

\* C1: the fused table has exactly as many rows as the anchor table, whatever
\* the right-hand tables hold, several rows with one date key included.
C1_RowCount == MergeDone => Len(dynamics.rows) = Len(satellite_data.rows)

\* C2: after the merge, the dates of the fused table are the anchor's dates in
\* the anchor's row order and no other date; a fused row whose date no row of
\* a right-hand table carries holds a missing value in that table's column,
\* and otherwise the value of a row of that table with that date; the columns
\* stand in the order of the join sequence.
C2_LeftJoin ==
    MergeDone =>
        /\ Collapse(Keys(dynamics)) = Keys(satellite_data)
        /\ dynamics.cols = satellite_data.cols \o [i \in 1..4 |-> ValueCol(i)]
        /\ \A r \in DOMAIN dynamics.rows : \A i \in 1..4 :
              LET matching == {q \in DOMAIN solar[i].rows :
                                  solar[i].rows[q][1] = dynamics.rows[r][1]}
                  cell == dynamics.rows[r][Len(satellite_data.cols) + i]
              IN IF matching = {} THEN IsNaN(cell)
                 ELSE \E q \in matching : cell = solar[i].rows[q][2]

\* C2 witness: the anchor holds the one date 0; the first feed holds a row of
\* date 0 and a row of a date the anchor lacks; the second feed holds no row.
C2_Witness ==
    /\ MergeDone
    /\ Keys(satellite_data) = <<Num(0)>>
    /\ Keys(solar[1]) = <<Num(0), Num(2)>>
    /\ solar[2].rows = <<>>
    /\ Keys(dynamics) = <<Num(0)>>
    /\ dynamics.rows[1][3] = Num(11)
    /\ IsNaN(dynamics.rows[1][4])

\* C3: the label of every node of the exported graph encodes the number of
\* coefficient records that have the node as source or as target, a self-loop
\* counting once and each parallel record once.
C3_BoundCount ==
    graph_html.state = "written" =>
        \A k \in DOMAIN graph_html.nodes :
            LET n == graph_html.nodes[k]
                records == graph_json.doc.links
            IN n.value = Label(n.name,
                               Cardinality({i \in DOMAIN records :
                                               \/ records[i].source = n.name
                                               \/ records[i].target = n.name}))

\* C3 witness: a self-loop on a and a record from a to b: a has 2 bounds.
C3_Witness ==
    /\ graph_html.state = "written"
    /\ graph_json.doc.links = << [source |-> "a", target |-> "a", value |-> 5],
                                 [source |-> "a", target |-> "b", value |-> 5] >>
    /\ \E k \in DOMAIN graph_html.nodes :
          graph_html.nodes[k].name = "a" /\ graph_html.nodes[k].value = "a - 2 bound(s)"

\* C4: the node list holds exactly one node for each identifier that is the
\* source or the target of some record, and so at most twice as many nodes as
\* there are records.
C4_NodeDedup ==
    graph_html.state = "written" =>
        LET records == graph_json.doc.links
            names == [k \in DOMAIN graph_html.nodes |-> graph_html.nodes[k].name]
            ends == {x \in NodeIds : \E i \in DOMAIN records :
                        records[i].source = x \/ records[i].target = x}
        IN /\ Range(names) = ends
           /\ Len(names) = Cardinality(ends)
           /\ Len(names) <= 2 * Len(records)

\* C4 witness: the records a-b and b-c give the three nodes a, b, c.
C4_Witness ==
    /\ graph_html.state = "written"
    /\ graph_json.doc.links = << [source |-> "a", target |-> "b", value |-> 5],
                                 [source |-> "b", target |-> "c", value |-> 5] >>
    /\ Len(graph_html.nodes) = 3

\* C5: read_satellite_data returns one row per distinct date of the
\* directory's rows, every other cell the arithmetic mean of the date's rows;
\* read_satellite_data on that result succeeds and returns the same table.
C5_AggregationIdempotent ==
    (normalizer.stage \in {"first", "second"} /\ normalizer.first.err = "none") =>
        LET raw == Flatten(normalizer.dir.files)
            t == normalizer.first.table
            day(c) == c[1] \div TicksPerDay
            days == {day(raw[i][1]) : i \in DOMAIN raw}
            values == [i \in DOMAIN raw |-> raw[i][2][1]]
        IN /\ t.cols = <<"Time", "bat_v">>
           /\ Len(t.rows) = Cardinality(days)
           /\ {day(t.rows[r][1]) : r \in DOMAIN t.rows} = days
           /\ \A r \in DOMAIN t.rows :
                 LET group == {i \in DOMAIN raw : day(raw[i][1]) = day(t.rows[r][1])}
                 IN /\ t.rows[r][1][1] % TicksPerDay = 0
                    /\ t.rows[r][2][2] > 0
                    /\ t.rows[r][2][1] * Cardinality(group)
                          = t.rows[r][2][2] * SumInts(values, group)
           /\ normalizer.stage = "second" => normalizer.second = normalizer.first

\* C5 witness: the dates day 0, day 0, day 1 with the values 1, 3, 5 give the
\* rows (day 0, 2) and (day 1, 5), and so again the second time.
C5_Witness ==
    /\ normalizer.stage = "second"
    /\ Flatten(normalizer.dir.files) = <<SatRow(0, 1), SatRow(1, 2), SatRow(TicksPerDay, 3)>>
    /\ normalizer.first.table.rows = << <<Num(0), Num(2)>>, <<Num(TicksPerDay), Num(5)>> >>
    /\ normalizer.second.table = normalizer.first.table

\* the document lacks "graph", or "links", or a link lacks one of its keys
Malformed(doc) ==
    \/ ~doc.graph
    \/ ~doc.links_key
    \/ \E i \in DOMAIN doc.links : DOMAIN doc.links[i] # {"source", "target", "value"}

C7_FailFast ==
    /\ Len(trace) <= Len(Stages)
    /\ \A i \in DOMAIN trace : trace[i] = Stages[i]
    /\ pc \notin {"done", "aborted"} => pc = Stages[Len(trace) + 1]
    /\ pc = "done" => trace = Stages
    /\ error # "none" <=> pc = "aborted"
    /\ full_csv.state = "written" <=> "to_csv" \in Range(trace)
    /\ graph_json.state = "written" => "cross_correlate" \in Range(trace)
    /\ graph_html.state = "written" => "create_graph" \in Range(trace)
    /\ (pc = "aborted" /\ trace[Len(trace)] \in LoadStages) =>
          /\ dynamics = EmptyTable
          /\ full_csv = AbsentCsv
          /\ graph_json = AbsentJson
          /\ graph_html = AbsentHtml
          /\ Range(trace) \cap {"merge", "to_csv", "cross_correlate", "create_graph"} = {}

\* C7 witness: the load of the second feed failed after three loads went well.
C7_Witness ==
    /\ pc = "aborted"
    /\ trace = <<"mkdir", "read_satellite", "read_ssn", "read_indices">>
    /\ satellite_data.rows # <<>>
    /\ full_csv = AbsentCsv

\* a column of a right-hand table, its date column aside, has the label of a
\* column of the anchor or of an earlier right-hand table
Collision ==
    \E i \in 1..4 : \E c \in Range(Tail(solar[i].cols)) :
        \/ c \in Range(Tail(satellite_data.cols))
        \/ \E j \in 1..(i - 1) : c \in Range(Tail(solar[j].cols))

\* C8: when the renamed columns of a right-hand table collide with a column
\* of the accumulating result, the alignment fails with SchemaMismatchError
\* and produces no fused table.  (The claim's other case, a right-hand table
\* with a "Time" column of its own, is left out here: there the merge raises
\* ValueError.)
C8_RenameCollision ==
    (/\ Len(trace) >= StageIndex("merge")
     /\ Collision
     /\ \A i \in 1..4 : time_column \notin Range(solar[i].cols)) =>
        /\ Len(trace) = StageIndex("merge")
        /\ pc = "aborted"
        /\ error = "SchemaMismatchError"

\* C9: the keys of every table that enters the merge are truncated to the
\* day, so a row of the anchor gets the value of a right-hand table whenever
\* that table has a row of the same calendar day, whatever its time of day.
C9_DayGranularity ==
    MergeDone =>
        \A r \in DOMAIN dynamics.rows : \A i \in 1..4 :
            (\E q \in DOMAIN solar[i].rows :
                  solar[i].rows[q][1][1] \div TicksPerDay
                      = dynamics.rows[r][1][1] \div TicksPerDay)
               => ~IsNaN(dynamics.rows[r][Len(satellite_data.cols) + i])

\* C10: main attempts fetch, learn, behave once each and in that order; a
\* subprocess that cannot be launched, exits with a non-zero status or writes
\* to its error stream is logged and nothing more: the later commands still
\* run and main completes.
C10_Sequencing ==
    /\ Len(dl_results) <= Len(Commands)
    /\ \A i \in DOMAIN dl_results : dl_results[i].cmd = Commands[i]
    /\ dl_pc \in Range(Commands) \cup {"done"}
    /\ dl_pc # "done" => (dl_pc = Commands[Len(dl_results) + 1] /\ ENABLED RunPolaris(dl_pc))
    /\ dl_pc = "done" => Len(dl_results) = Len(Commands)
    /\ Cardinality({i \in DOMAIN dl_log : dl_log[i].level = "ERROR"})
          = Cardinality({i \in DOMAIN dl_results :
                            dl_results[i].out.raised \/ dl_results[i].out.stderr # ""})

\* C10 witness: fetch could not be launched, learn exited with status 1 and
\* wrote to its error stream, and main still ran behave and completed.
C10_Witness ==
    /\ dl_pc = "done"
    /\ Len(dl_results) = 3
    /\ dl_results[1].out.raised
    /\ dl_results[2].out.returncode = 1
    /\ dl_results[2].out.stderr = "err"
    /\ ~dl_results[3].out.raised

====
